---- MODULE Spec2Model ----
(***************************************************************************)
(* Employee attrition prediction (src/model.py) and the login gate of the  *)
(* three Streamlit scripts (src/model.py, src/newpy.py, src/pythondash.py).*)
(*                                                                         *)
(* The state is that of one Streamlit script run of main_app: the cached   *)
(* model_columns artifact, the uploaded CSV or the submitted form, the     *)
(* caller's frame df, the locals of preprocess_input at its exit, and what *)
(* main_app derives from the classifier; and that of a browser session:    *)
(* st.session_state, the interaction that triggered the latest script run  *)
(* and what that run rendered.  A frame is [cols, rows]: cols is the       *)
(* ordered list of column names, rows a sequence of functions from column  *)
(* name to cell.                                                           *)
(***************************************************************************)
EXTENDS Integers, Sequences, FiniteSets, TLC

VARIABLES
    pc,             \* "idle": no run in progress; "rendered": main_app has run
                    \* on an upload; "result": main_app has run on a submitted
                    \* form; "called_again": preprocess_input was called once
                    \* more; "realigned": the alignment lines were applied once
                    \* more; "binned": the binning lines alone were applied;
                    \* "filtered": pythondash.py has applied its filters
    model_columns,  \* load_resources(): the CanonicalColumns artifact
    uploaded_file,  \* the CSV as uploaded (what pd.read_csv returns)
    df,             \* main_app's df or input_df: the frame handed to
                    \* preprocess_input; pythondash.py: the CSV as read
    processed_df,   \* preprocess_input: input_df[features]
    dummies_df,     \* preprocess_input: encoded_df as get_dummies returns it
    encoded_df,     \* preprocess_input: encoded_df after the alignment lines
    processed_data, \* the matrix scaler.transform returns
    predictions,    \* model.predict(processed_data)
    probabilities,  \* model.predict_proba(processed_data)[:, 1]
    metrics,        \* [total, stay, leave] shown by st.metric
    error,          \* "" or the error shown / exception raised
    calls,          \* the library calls made by the run, in order
    input_data,     \* the manual form as submitted (main_app's input_data)
    result,         \* what the manual branch shows under 'Result'
    loads,          \* how often the body of load_resources has run
    script,         \* the script the session runs
    environ,        \* os.environ: the configured passwords
    session_state,  \* st.session_state of the session
    event,          \* the interaction that triggered the latest script run
    page,           \* what the latest script run rendered
    rerun,          \* st.rerun() was called: a script run is pending
    selected_depts, \* pythondash.py: the departments ticked in the sidebar
    selected_status,\* pythondash.py: the statuses ticked in the sidebar
    filtered_df     \* pythondash.py: df with the sidebar's filters applied

\* The variables of the session and its login gate.
authVars == <<script, environ, session_state, event, page, rerun>>

\* The variables of the dashboard's sidebar filters.
dashVars == <<selected_depts, selected_status, filtered_df>>

vars == <<pc, model_columns, uploaded_file, df, processed_df, dummies_df,
          encoded_df, processed_data, predictions, probabilities, metrics,
          error, calls, input_data, result, loads, authVars, dashVars>>

(***************************************************************************)
(* Bounds of the model.                                                    *)
(***************************************************************************)
\* The largest number of rows in an uploaded batch.
MaxBatch == 2
\* How far beyond the first and last bin boundary the binned values range.
Margin == 2
\* The largest number of rows in the dashboard's CSV.
MaxRows == 3

NaN == "NaN"

Range(s) == {s[i] : i \in DOMAIN s}

Max(a, b) == IF a >= b THEN a ELSE b

Min(a, b) == IF a <= b THEN a ELSE b

RECURSIVE Concat(_)
Concat(ss) == IF ss = <<>> THEN <<>> ELSE Head(ss) \o Concat(Tail(ss))

RECURSIVE PermSeqs(_)
\* Every order in which the elements of a set can be iterated.
PermSeqs(S) ==
    IF S = {} THEN {<<>>}
    ELSE UNION {{<<x>> \o p : p \in PermSeqs(S \ {x})} : x \in S}

EmptyFrame == [cols |-> <<>>, rows |-> <<>>]

RECURSIVE Tuple(_, _)
\* The sequence <<f[1], ..., f[n]>>, built element by element.
Tuple(f, n) == IF n = 0 THEN <<>> ELSE Append(Tuple(f, n - 1), f[n])

RECURSIVE Keyed(_, _)
\* The function over the names of cols with the values of f, built name by
\* name.
Keyed(f, cols) ==
    IF cols = <<>> THEN <<>>
    ELSE (Head(cols) :> f[Head(cols)]) @@ Keyed(f, Tail(cols))

(***************************************************************************)
(* Frames (pandas.DataFrame as model.py uses it).                          *)
(***************************************************************************)
\* frame[c] = vals: an existing column is overwritten in place, a new one
\* is appended as the last column.
SetColumn(frame, c, vals) ==
    [cols |-> IF c \in Range(frame.cols) THEN frame.cols
              ELSE Append(frame.cols, c),
     rows |-> Tuple([i \in 1..Len(frame.rows) |->
                        (c :> vals[i]) @@ frame.rows[i]],
                    Len(frame.rows))]

\* frame[cols]: the listed columns, in the listed order.
SelectColumns(frame, cols) ==
    [cols |-> cols,
     rows |-> Tuple([i \in 1..Len(frame.rows) |-> Keyed(frame.rows[i], cols)],
                    Len(frame.rows))]

Column(frame, c) ==
    Tuple([i \in 1..Len(frame.rows) |-> frame.rows[i][c]], Len(frame.rows))

(***************************************************************************)
(* Binning: pd.cut(values, bins=..., labels=..., right=False).             *)
(***************************************************************************)
age_bins == <<21, 29, 37, 46, 54, 62>>
age_labels == <<"21-28", "29-36", "37-45", "46-53", "54-61">>
\* Faulty variant of tenure_bins: the last boundary is the last label's
\* upper end.
tenure_bins_upto29 == <<0, 6, 12, 18, 24, 29>>

tenure_bins == <<0, 6, 12, 18, 24, 30>>
tenure_labels == <<"0-5", "6-11", "12-17", "18-23", "24-29">>
salary_bins == <<40000, 60000, 80000, 100000, 130000>>
salary_labels == <<"low", "medium", "high", "very_high">>

\* Faulty variant of SearchSortedRight: side="left", the search of right=True.
SearchSortedLeft(bins, x) == Cardinality({i \in 1..Len(bins) : bins[i] < x})

\* bins.searchsorted(x, side="right"): how many boundaries are <= x.
SearchSortedRight(bins, x) == Cardinality({i \in 1..Len(bins) : bins[i] <= x})

\* Faulty variant of Cut: a value at or above the last boundary is put into
\* the last interval.
CutClipped(x, bins, labels) ==
    LET ids == SearchSortedRight(bins, x)
    IN  IF ids = 0 THEN NaN ELSE IF ids = Len(bins) THEN labels[Len(labels)]
        ELSE labels[ids]

\* pd.cut with right=False: the label of the interval found by searchsorted;
\* NaN when x is below the first boundary or at or above the last one.
Cut(x, bins, labels) ==
    LET ids == SearchSortedRight(bins, x)
    IN  IF ids = 0 \/ ids = Len(bins) THEN NaN ELSE labels[ids]

CutColumn(frame, c, bins, labels) ==
    Tuple([i \in 1..Len(frame.rows) |-> Cut(frame.rows[i][c], bins, labels)],
          Len(frame.rows))

\* Faulty variant of BinAge: pd.cut(input_df.pop('age'), ...), which takes the age
\* column out of the caller's frame.
BinAgePop(frame) ==
    SetColumn(SelectColumns(frame, SelectSeq(frame.cols, LAMBDA k : k # "age")),
              "age_group", CutColumn(frame, "age", age_bins, age_labels))

\* Lines 50-52: input_df['age_group'] = pd.cut(input_df['age'], ...).
BinAge(frame) ==
    SetColumn(frame, "age_group", CutColumn(frame, "age", age_bins, age_labels))

\* Lines 54-56: input_df['tenure_group'] = pd.cut(input_df['tenure'], ...).
BinTenure(frame) ==
    SetColumn(frame, "tenure_group",
              CutColumn(frame, "tenure", tenure_bins, tenure_labels))

\* Lines 58-60: input_df['salary_bin'] = pd.cut(input_df['salary'], ...).
BinSalary(frame) ==
    SetColumn(frame, "salary_bin",
              CutColumn(frame, "salary", salary_bins, salary_labels))

(***************************************************************************)
(* Column types.  pd.cut returns a Categorical whose categories are all    *)
(* the labels; the four text columns are object columns; the rest are      *)
(* numeric.                                                                *)
(***************************************************************************)
\* Faulty variant of features: the raw salary is selected as well.
featuresWithSalary ==
    <<"no_of_projects", "salary", "salary_bin", "age_group", "tenure_group",
      "dept_name", "title", "sex", "Last_performance_rating">>

\* Lines 63-64.
features == <<"no_of_projects", "salary_bin", "age_group", "tenure_group",
              "dept_name", "title", "sex", "Last_performance_rating">>

required_cols == <<"age", "tenure", "salary", "dept_name", "title", "sex",
                   "Last_performance_rating", "no_of_projects">>

BinnedCols == {"salary_bin", "age_group", "tenure_group"}

ObjectCols == {"dept_name", "title", "sex", "Last_performance_rating"}

\* The categories of the Categorical that pd.cut builds for a binned column.
Categories(c) ==
    CASE c = "age_group" -> age_labels
      [] c = "tenure_group" -> tenure_labels
      [] c = "salary_bin" -> salary_labels

\* The text values a column may hold, in the order Python sorts them.
SortedVocabulary(c) ==
    CASE c = "dept_name" -> <<"Finance", "Sales", "Tech">>
      [] c = "title" -> <<"Analyst", "Engineer">>
      [] c = "sex" -> <<"F", "M">>
      [] c = "Last_performance_rating" -> <<"A", "B">>

(***************************************************************************)
(* pd.get_dummies(processed_df, drop_first=True).                          *)
(***************************************************************************)
\* Faulty variant of Observed: the levels are all the values the column may
\* hold, as for a Categorical, whatever the batch holds.
ObservedVocabulary(frame, c) == SortedVocabulary(c)

\* The distinct non-missing values of an object column, sorted.
Observed(frame, c) ==
    LET present == Range(Column(frame, c))
    IN  SelectSeq(SortedVocabulary(c), LAMBDA v : v \in present)

\* The levels get_dummies encodes: every category of a Categorical column,
\* the observed values of an object column.
Levels(frame, c) ==
    IF c \in BinnedCols THEN Categories(c) ELSE Observed(frame, c)

\* Faulty variant of DropFirst: drop_first=False, every level gets a column.
KeepFirst(levels) == levels

\* drop_first=True: the first level gets no indicator column.
DropFirst(levels) == IF Len(levels) = 0 THEN <<>> ELSE Tail(levels)

\* The indicator columns generated for column c: name, source, level.
Indicators(frame, c) ==
    LET lv == DropFirst(Levels(frame, c))
    IN  Tuple([k \in 1..Len(lv) |->
                  [name |-> c \o "_" \o lv[k], src |-> c, level |-> lv[k]]],
              Len(lv))

GetDummies(frame) ==
    LET IsEncoded(c) == c \in BinnedCols \cup ObjectCols
        numeric == SelectSeq(frame.cols, LAMBDA c : ~IsEncoded(c))
        encoded == SelectSeq(frame.cols, IsEncoded)
        inds == Concat(Tuple([j \in 1..Len(encoded) |->
                                 Indicators(frame, encoded[j])], Len(encoded)))
        names == Tuple([k \in 1..Len(inds) |-> inds[k].name], Len(inds))
        Passed(row) == Keyed(row, numeric)
        Dummies(row) ==
            Keyed([k \in 1..Len(inds) |->
                      IF row[inds[k].src] = inds[k].level THEN 1 ELSE 0],
                  Tuple([k \in 1..Len(inds) |-> k], Len(inds)))
        Named(row) ==
            LET d == Dummies(row)
            IN  Keyed([n \in Range(names) |->
                          d[CHOOSE k \in 1..Len(inds) : names[k] = n]], names)
    IN  [cols |-> numeric \o names,
         rows |-> Tuple([i \in 1..Len(frame.rows) |->
                            Passed(frame.rows[i]) @@ Named(frame.rows[i])],
                        Len(frame.rows))]

(***************************************************************************)
(* Column alignment (lines 70-74).                                         *)
(***************************************************************************)
\* Line 71: set(model_columns) - set(encoded_df.columns).
MissingCols(frame, columns) == Range(columns) \ Range(frame.cols)

\* Faulty variant of ZeroColumn: the missing column is filled with ones.
OneColumn(frame) == [i \in 1..Len(frame.rows) |-> 1]

\* Line 73: the value 0, broadcast over the rows.
ZeroColumn(frame) == [i \in 1..Len(frame.rows) |-> 0]

RECURSIVE AddZeroColumns(_, _)
\* Lines 72-73: for col in missing_cols: encoded_df[col] = 0, in the order
\* the set happens to be iterated.
AddZeroColumns(frame, order) ==
    IF order = <<>> THEN frame
    ELSE AddZeroColumns(
             SetColumn(frame, Head(order), ZeroColumn(frame)),
             Tail(order))

\* Faulty variant of Align: lines 71-73 are left out and only the canonical columns
\* that were generated are selected.
AlignPresentOnly(frame, columns, order) ==
    SelectColumns(frame, SelectSeq(columns, LAMBDA c : c \in Range(frame.cols)))

\* Faulty variant of Align: the first column of the frame is taken for
\* missing as well and overwritten with 0.
AlignFirstZeroed(frame, columns, order) ==
    SelectColumns(
        AddZeroColumns(SetColumn(frame, frame.cols[1], ZeroColumn(frame)), order),
        columns)

\* Lines 71-74.
Align(frame, columns, order) ==
    SelectColumns(AddZeroColumns(frame, order), columns)

(***************************************************************************)
(* The fitted StandardScaler and LogisticRegression artifacts.  Both were  *)
(* fitted on the columns of model_columns, so parameter j belongs to       *)
(* column model_columns[j].  Values are fixed-point, in tenths.            *)
(***************************************************************************)
\* scaler.mean_, in tenths: the training mean of each column.
ScalerMean(c) ==
    CASE c = "no_of_projects" -> 30
      [] c = "dept_name_Sales" -> 4
      [] c = "dept_name_Tech" -> 1
      [] c = "title_Engineer" -> 5
      [] c = "sex_M" -> 6
      [] c = "Last_performance_rating_B" -> 7
      [] c \in {"salary_bin_medium", "salary_bin_high", "salary_bin_very_high"}
           -> 3
      [] OTHER -> 2

\* scaler.scale_: the training standard deviation of each column.
ScalerScale(c) == IF c = "no_of_projects" THEN 2 ELSE 1

\* scaler.transform(encoded_df): (x - mean_) / scale_ per column, as a bare
\* matrix; a frame of another width than the scaler was fitted on is refused.
ScalerTransform(frame, columns) ==
    Tuple([i \in 1..Len(frame.rows) |->
              Tuple([j \in 1..Len(frame.cols) |->
                        (frame.rows[i][frame.cols[j]] * 10 - ScalerMean(columns[j]))
                            \div ScalerScale(columns[j])],
                    Len(frame.cols))],
          Len(frame.rows))

Coef(c) ==
    CASE c = "no_of_projects" -> 1
      [] c = "age_group_29-36" -> 2
      [] c = "dept_name_Sales" -> -3
      [] c = "sex_M" -> 1
      [] c \in {"salary_bin_medium", "tenure_group_6-11"} -> -1
      [] OTHER -> 0

RECURSIVE Dot(_, _, _)
Dot(row, columns, j) ==
    IF j = 0 THEN 0 ELSE Coef(columns[j]) * row[j] + Dot(row, columns, j - 1)

\* The classifier's decision function: intercept_ + coef_ . x.
Score(row, columns) == Dot(row, columns, Len(row)) - 10

\* model.predict(processed_data): class 1 where the decision function is > 0.
Predict(matrix, columns) ==
    Tuple([i \in 1..Len(matrix) |->
              IF Score(matrix[i], columns) > 0 THEN 1 ELSE 0], Len(matrix))

\* model.predict_proba(processed_data)[:, 1], in percent: increasing in the
\* decision function and 50 where it is 0.
PredictProba(matrix, columns) ==
    Tuple([i \in 1..Len(matrix) |->
              Min(100, Max(0, 50 + Score(matrix[i], columns)))], Len(matrix))

(***************************************************************************)
(* preprocess_input(input_df, model_columns, scaler), lines 47-78.         *)
(* The result records the caller's frame as the function leaves it, the    *)
(* function's locals, the library calls it made and the exception that     *)
(* ended it ("" when it returned).                                         *)
(***************************************************************************)
Has(frame, c) == c \in Range(frame.cols)

\* The function left by an exception: the caller's frame as mutated so far.
Raised(frame, exc, made) ==
    [input_df |-> frame, processed_df |-> EmptyFrame, dummies_df |-> EmptyFrame,
     encoded_df |-> EmptyFrame, scaled_data |-> <<>>, raised |-> exc,
     calls |-> made]

\* Lines 50-68: binning, feature selection and one-hot encoding.
BinAndEncode(input_df) ==
    IF ~Has(input_df, "age") THEN Raised(input_df, "KeyError", <<>>)
    ELSE IF ~Has(input_df, "tenure")
    THEN Raised(BinAge(input_df), "KeyError", <<"pd.cut">>)
    ELSE IF ~Has(input_df, "salary")
    THEN Raised(BinTenure(BinAge(input_df)), "KeyError", <<"pd.cut", "pd.cut">>)
    ELSE
    LET binned == BinSalary(BinTenure(BinAge(input_df)))
        cuts == <<"pd.cut", "pd.cut", "pd.cut">>
    IN  IF \E c \in Range(features) : ~Has(binned, c)
        THEN Raised(binned, "KeyError", cuts)
        ELSE
        LET selected == SelectColumns(binned, features)
        IN  [input_df |-> binned, processed_df |-> selected,
             dummies_df |-> GetDummies(selected), encoded_df |-> EmptyFrame,
             scaled_data |-> <<>>, raised |-> "",
             calls |-> cuts \o <<"pd.get_dummies">>]

\* Lines 70-78: alignment and scaling of what BinAndEncode left; the
\* scaler refuses a frame of another width than it was fitted on.
AlignAndScale(enc, columns, order) ==
    IF enc.raised # "" THEN enc
    ELSE
    LET aligned == Align(enc.dummies_df, columns, order)
        fits == Len(aligned.cols) = Len(columns)
    IN  [enc EXCEPT !.encoded_df = aligned,
                    !.scaled_data = IF fits THEN ScalerTransform(aligned, columns)
                                    ELSE <<>>,
                    !.raised = IF fits THEN "" ELSE "ValueError",
                    !.calls = @ \o <<"scaler.transform">>]

PreprocessInput(input_df, columns, order) ==
    AlignAndScale(BinAndEncode(input_df), columns, order)

\* The orders in which line 72 may iterate missing_cols.
IterationOrders(enc, columns) ==
    IF enc.raised = "" THEN PermSeqs(MissingCols(enc.dummies_df, columns))
    ELSE {<<>>}

(***************************************************************************)
(* main_app, the 'Upload CSV' branch, lines 91-131.                        *)
(***************************************************************************)
\* Faulty variant of HasRequiredCols: any() where the code has all().
HasAnyRequiredCol(frame) == \E c \in Range(required_cols) : Has(frame, c)

\* Line 97: all(col in df.columns for col in required_cols).
HasRequiredCols(frame) == \A c \in Range(required_cols) : Has(frame, c)

\* Faulty variant of Label: the label of class 0 is misspelt.
LabelMisspelt(p) == IF p = 1 THEN "Leave" ELSE "Stays"

\* Line 102: 'Leave' if p == 1 else 'Stay'.
Label(p) == IF p = 1 THEN "Leave" ELSE "Stay"

\* Lines 111-112: len(df[df['Prediction'] == label]).
CountLabel(frame, label) ==
    Cardinality({i \in 1..Len(frame.rows) : frame.rows[i]["Prediction"] = label})

NoMetrics == [total |-> 0, stay |-> 0, leave |-> 0]

\* Faulty variant of Classify: the classifier is handed the aligned frame
\* encoded_df as it was before scaling.
ClassifyUnscaled(pre, columns) ==
    IF pre.raised # ""
    THEN [df |-> pre.input_df, predictions |-> <<>>, probabilities |-> <<>>,
          metrics |-> NoMetrics, error |-> pre.raised, calls |-> pre.calls]
    ELSE
    LET unscaled == Tuple([i \in 1..Len(pre.encoded_df.rows) |->
                              Tuple([j \in 1..Len(columns) |->
                                        pre.encoded_df.rows[i][columns[j]]],
                                    Len(columns))],
                          Len(pre.encoded_df.rows))
        preds == Predict(unscaled, columns)
        probs == PredictProba(unscaled, columns)
        labelled == SetColumn(pre.input_df, "Prediction",
                              [i \in 1..Len(preds) |-> Label(preds[i])])
        out == SetColumn(labelled, "Probability", probs)
    IN  [df |-> out, predictions |-> preds, probabilities |-> probs,
         metrics |-> [total |-> Len(out.rows),
                      stay |-> CountLabel(out, "Stay"),
                      leave |-> CountLabel(out, "Leave")],
         error |-> "",
         calls |-> pre.calls \o <<"model.predict", "model.predict_proba">>]

\* Lines 100-129: classification of the matrix preprocess_input returned
\* (pre), the two new columns of df and the metrics.
Classify(pre, columns) ==
    IF pre.raised # ""
    THEN [df |-> pre.input_df, predictions |-> <<>>, probabilities |-> <<>>,
          metrics |-> NoMetrics, error |-> pre.raised, calls |-> pre.calls]
    ELSE
    LET preds == Predict(pre.scaled_data, columns)
        probs == PredictProba(pre.scaled_data, columns)
        labelled == SetColumn(pre.input_df, "Prediction",
                              [i \in 1..Len(preds) |-> Label(preds[i])])
        out == SetColumn(labelled, "Probability", probs)
    IN  [df |-> out, predictions |-> preds, probabilities |-> probs,
         metrics |-> [total |-> Len(out.rows),
                      stay |-> CountLabel(out, "Stay"),
                      leave |-> CountLabel(out, "Leave")],
         error |-> "",
         calls |-> pre.calls \o <<"model.predict", "model.predict_proba">>]

(***************************************************************************)
(* main_app, the 'Manual Input' branch, lines 133-167.                     *)
(***************************************************************************)
\* Line 137: st.slider('Age', 21, 61, 30).
AgeSlider == 21..61

\* Line 138: st.slider('Tenure (Years)', 0, 29, 2).
TenureSlider == 0..29

\* Line 136: st.number_input(..., min_value=40000, max_value=130000, ...).
SalaryInput == 40000..130000

\* Line 135: st.number_input(..., min_value=0, max_value=20, value=2).
ProjectsInput == 0..20

\* The form as first rendered: the widgets' default values, a selectbox on
\* the first entry of its list.
FormDefault ==
    [age |-> 30, tenure |-> 2, salary |-> 50000, no_of_projects |-> 2,
     dept_name |-> SortedVocabulary("dept_name")[1],
     title |-> SortedVocabulary("title")[1],
     sex |-> SortedVocabulary("sex")[1],
     Last_performance_rating |-> SortedVocabulary("Last_performance_rating")[1]]

\* Lines 147-156: the keys of input_data, in the order of the dict.
input_cols == <<"age", "tenure", "salary", "no_of_projects", "dept_name",
                "title", "sex", "Last_performance_rating">>

\* Line 157: pd.DataFrame(input_data), a frame of one row.
DataFrame(form) == [cols |-> input_cols, rows |-> <<Keyed(form, input_cols)>>]

NoInput == <<>>

NoResult == [box |-> "", outcome |-> "", probability |-> 0]

\* Faulty variant of Outcome: the two messages are exchanged.
OutcomeExchanged(prediction) ==
    IF prediction = 1 THEN "Employee will stay" ELSE "Employee will leave"

\* Lines 164-167: the message chosen by prediction == 1.
Outcome(prediction) ==
    IF prediction = 1 THEN "Employee will leave" ELSE "Employee will stay"

\* Lines 165 and 167: the number printed after 'Probability:', in percent
\* (two decimals of the fraction): probability when the employee leaves,
\* 1 - probability when the employee stays.
Reported(prediction, probability) ==
    IF prediction = 1 THEN probability ELSE 100 - probability

\* Lines 160-167: classification of the one-row matrix preprocess_input
\* returned (pre) and the result box.
ManualResult(pre, columns) ==
    IF pre.raised # ""
    THEN [df |-> pre.input_df, predictions |-> <<>>, probabilities |-> <<>>,
          result |-> NoResult, error |-> pre.raised, calls |-> pre.calls]
    ELSE
    LET preds == Predict(pre.scaled_data, columns)
        probs == PredictProba(pre.scaled_data, columns)
        prediction == preds[1]
        probability == probs[1]
    IN  [df |-> pre.input_df, predictions |-> preds, probabilities |-> probs,
         result |-> [box |-> IF prediction = 1 THEN "st.error" ELSE "st.success",
                     outcome |-> Outcome(prediction),
                     probability |-> Reported(prediction, probability)],
         error |-> "",
         calls |-> pre.calls \o <<"model.predict", "model.predict_proba">>]

(***************************************************************************)
(* load_resources, lines 35-44, under @st.cache_resource.                  *)
(***************************************************************************)
\* Faulty variant of LoadResources: the decorator is missing and every call
\* runs the body.
LoadResourcesUncached(n) == n + 1

\* The number of times the body has run after one more call of
\* load_resources(): the first call runs it, every later call is answered
\* from the cache.
LoadResources(n) == IF n = 0 THEN 1 ELSE n

(***************************************************************************)
(* The artifacts load_resources may return and the files a user may        *)
(* upload.                                                                 *)
(***************************************************************************)
\* model_columns.pkl as pd.get_dummies(..., drop_first=True) lays the columns
\* out for a training frame with the departments Finance and Sales.
TrainedColumns ==
    <<"no_of_projects",
      "salary_bin_medium", "salary_bin_high", "salary_bin_very_high",
      "age_group_29-36", "age_group_37-45", "age_group_46-53", "age_group_54-61",
      "tenure_group_6-11", "tenure_group_12-17", "tenure_group_18-23",
      "tenure_group_24-29",
      "dept_name_Sales", "title_Engineer", "sex_M",
      "Last_performance_rating_B">>

\* model_columns.pkl as recorded in another column order from a training
\* frame with all three departments and a single title and rating.
ReorderedColumns ==
    <<"dept_name_Sales", "dept_name_Tech", "sex_M",
      "no_of_projects",
      "age_group_29-36", "age_group_37-45", "age_group_46-53", "age_group_54-61",
      "tenure_group_6-11", "tenure_group_12-17", "tenure_group_18-23",
      "tenure_group_24-29",
      "salary_bin_medium", "salary_bin_high", "salary_bin_very_high">>

Artifacts == {TrainedColumns, ReorderedColumns}

\* The example record of the specification.
BaseRecord ==
    [age |-> 30, tenure |-> 5, salary |-> 55000, dept_name |-> "Sales",
     title |-> "Analyst", sex |-> "F", Last_performance_rating |-> "B",
     no_of_projects |-> 3]

\* The values a field takes in uploaded records: in and out of the bins,
\* every text value and a missing department.
FieldValues(c) ==
    CASE c = "age" -> {20, 30, 62}
      [] c = "tenure" -> {5, 30}
      [] c = "salary" -> {55000, 130000}
      [] c = "dept_name" -> {"Finance", "Sales", "Tech", NaN}
      [] c = "title" -> {"Analyst", "Engineer"}
      [] c = "sex" -> {"F", "M"}
      [] c = "Last_performance_rating" -> {"A", "B"}
      [] c = "no_of_projects" -> {3, 4}

\* The example record with one field changed.
Records ==
    {[BaseRecord EXCEPT ![c] = v] :
        <<c, v>> \in UNION {{<<k, w>> : w \in FieldValues(k)} :
                              k \in Range(required_cols)}}

Batches == UNION {[1..n -> Records] : n \in 1..MaxBatch}

Without(cols, c) == SelectSeq(cols, LAMBDA k : k # c)

\* The header of an uploaded CSV: the required columns, those and an
\* employee number, or the required columns but one.
Layouts ==
    {required_cols, required_cols \o <<"emp_no">>}
        \cup {Without(required_cols, c) : c \in Range(required_cols)}

\* pd.read_csv(uploaded_file), line 94.
ReadCsv(layout, batch) ==
    [cols |-> layout,
     rows |-> Tuple([i \in 1..Len(batch) |->
                        Keyed([c \in Range(layout) |->
                                  IF c = "emp_no" THEN 10000 + i ELSE batch[i][c]],
                              layout)],
                    Len(batch))]

UploadedFiles == {ReadCsv(layout, batch) : layout \in Layouts, batch \in Batches}

\* The values a widget of the form is set to: every age and tenure of the
\* sliders, the salaries of the number input within Margin of a bin
\* boundary, some project counts and every entry of the select boxes.
FormValues(c) ==
    CASE c = "age" -> AgeSlider
      [] c = "tenure" -> TenureSlider
      [] c = "salary" ->
           {s \in UNION {(salary_bins[i] - Margin)..(salary_bins[i] + Margin) :
                            i \in 1..Len(salary_bins)} : s \in SalaryInput}
      [] c = "no_of_projects" -> {0, 2, 3, 20} \cap ProjectsInput
      [] OTHER -> Range(SortedVocabulary(c))

\* The forms submitted: the default form or the example record, with one
\* widget changed.
ManualInputs ==
    {[base EXCEPT ![c] = v] :
        base \in {FormDefault, BaseRecord},
        <<c, v>> \in UNION {{<<k, w>> : w \in FormValues(k)} :
                              k \in Range(input_cols)}}

(***************************************************************************)
(* The login gate: check_login and logout of model.py, authenticate_user,  *)
(* login_form, logout and the top-level gate of newpy.py and               *)
(* pythondash.py.  A script run gets st.session_state and the interaction  *)
(* that triggered it and leaves the session state, the page it rendered    *)
(* ("login", "login_invalid" or "protected") and whether it called         *)
(* st.rerun().                                                             *)
(***************************************************************************)
Scripts == {"model.py", "newpy.py", "pythondash.py"}

\* The key of the login flag in st.session_state.
FlagKey(scr) == IF scr = "model.py" THEN "logged_in" ELSE "authenticated"

\* The login flag as a script run reads it: false while the key is absent.
LoginFlag(scr, state) == FlagKey(scr) \in DOMAIN state /\ state[FlagKey(scr)]

\* os.getenv(name, default).
Getenv(env, name, default) == IF name \in DOMAIN env THEN env[name] ELSE default

\* hashlib.sha256(text.encode()).hexdigest(): equal digests for equal texts
\* only.
Sha256(text) == <<"sha256", text>>

\* The dict authorized_users of authenticate_user.
authorized_users(env) ==
    ("admin" :> Sha256(Getenv(env, "ADMIN_PW", "admin@123")))
        @@ ("user" :> Sha256(Getenv(env, "USER_PW", "user@123")))

\* Faulty variant of authenticate_user: a username the dict lacks is looked
\* up with the submitted password's digest as the default.
authenticate_user_default(env, username, password) ==
    username \in DOMAIN authorized_users(env)
        => authorized_users(env)[username] = Sha256(password)

\* authorized_users.get(username) == sha256(password): None, which .get
\* returns for an unknown username, equals no digest.
authenticate_user(env, username, password) ==
    /\ username \in DOMAIN authorized_users(env)
    /\ authorized_users(env)[username] = Sha256(password)

\* model.py line 22.
AdminCredentials(username, password) ==
    username = "admin" /\ password = "admin@123"

\* model.py, check_login (lines 10-28); returned is its return value, which
\* an accepted login never delivers because st.rerun() ends the run.
check_login(state, ev) ==
    LET st0 == IF "logged_in" \in DOMAIN state THEN state
               ELSE ("logged_in" :> FALSE) @@ state
    IN  IF ~st0["logged_in"]
        THEN IF ev.kind = "submit"
             THEN IF AdminCredentials(ev.username, ev.password)
                  THEN [session_state |-> [st0 EXCEPT !["logged_in"] = TRUE],
                        page |-> "login", rerun |-> TRUE, returned |-> FALSE]
                  ELSE [session_state |-> st0, page |-> "login_invalid",
                        rerun |-> FALSE, returned |-> FALSE]
             ELSE [session_state |-> st0, page |-> "login", rerun |-> FALSE,
                   returned |-> FALSE]
        ELSE [session_state |-> st0, page |-> "none", rerun |-> FALSE,
              returned |-> TRUE]

\* model.py lines 170-172: main_app runs when check_login returned True.
ModelRun(state, ev) ==
    LET gate == check_login(state, ev)
    IN  [session_state |-> gate.session_state,
         page |-> IF gate.returned THEN "protected" ELSE gate.page,
         rerun |-> gate.rerun]

\* Faulty variant of login_form: st.rerun() is called after an accepted
\* login in pythondash.py too.
login_form_rerun(scr, env, state, ev) ==
    IF ev.kind = "submit"
    THEN IF authenticate_user(env, ev.username, ev.password)
         THEN [session_state |->
                   ("authenticated" :> TRUE) @@ ("username" :> ev.username)
                       @@ state,
               page |-> "login", rerun |-> TRUE]
         ELSE [session_state |-> state, page |-> "login_invalid",
               rerun |-> FALSE]
    ELSE [session_state |-> state, page |-> "login", rerun |-> FALSE]

\* login_form of newpy.py (lines 17-29) and pythondash.py (lines 21-33);
\* only newpy.py calls st.rerun() after an accepted login.
login_form(scr, env, state, ev) ==
    IF ev.kind = "submit"
    THEN IF authenticate_user(env, ev.username, ev.password)
         THEN [session_state |->
                   ("authenticated" :> TRUE) @@ ("username" :> ev.username)
                       @@ state,
               page |-> "login", rerun |-> scr = "newpy.py"]
         ELSE [session_state |-> state, page |-> "login_invalid",
               rerun |-> FALSE]
    ELSE [session_state |-> state, page |-> "login", rerun |-> FALSE]

\* newpy.py lines 36-44 and pythondash.py lines 40-48 and what follows: the
\* flag is initialised, the login form is shown and the run stopped while
\* it is false, the dashboard is rendered otherwise.
DashboardRun(scr, env, state, ev) ==
    LET st0 == IF "authenticated" \in DOMAIN state THEN state
               ELSE ("authenticated" :> FALSE) @@ state
    IN  IF ~st0["authenticated"] THEN login_form(scr, env, st0, ev)
        ELSE [session_state |-> st0, page |-> "protected", rerun |-> FALSE]

\* One run of the session's script.
ScriptRun(scr, env, state, ev) ==
    IF scr = "model.py" THEN ModelRun(state, ev)
    ELSE DashboardRun(scr, env, state, ev)

\* Faulty variant of logout: the callback only forgets the username and
\* leaves the flag as it is.
logout_keeps_flag(scr, state) ==
    [k \in DOMAIN state \ {"username"} |-> state[k]]

\* The Logout callback: model.py lines 30-32 reset the flag, newpy.py line
\* 33 and pythondash.py line 37 clear the session state.
logout(scr, state) ==
    IF scr = "model.py" THEN [state EXCEPT !["logged_in"] = FALSE] ELSE <<>>

\* A script run happened: what it leaves, with load_resources() called when
\* model.py got as far as main_app (line 82).
Ran(ev, run) ==
    /\ event' = ev
    /\ session_state' = run.session_state
    /\ page' = run.page
    /\ rerun' = run.rerun
    /\ loads' = IF script = "model.py" /\ run.page = "protected"
                THEN LoadResources(loads) ELSE loads

\* A session of model.py whose login was just accepted: the flag is set and
\* the rerun that check_login requested is pending.
LoggedInSession ==
    /\ script = "model.py"
    /\ environ = <<>>
    /\ session_state = ("logged_in" :> TRUE)
    /\ event = [kind |-> "submit", username |-> "admin",
                password |-> "admin@123"]
    /\ page = "login"
    /\ rerun = TRUE

(***************************************************************************)
(* The state machine.                                                      *)
(***************************************************************************)
NoRun ==
    /\ pc = "idle"
    /\ uploaded_file = EmptyFrame
    /\ df = EmptyFrame
    /\ processed_df = EmptyFrame
    /\ dummies_df = EmptyFrame
    /\ encoded_df = EmptyFrame
    /\ processed_data = <<>>
    /\ predictions = <<>>
    /\ probabilities = <<>>
    /\ metrics = NoMetrics
    /\ error = ""
    /\ calls = <<>>
    /\ input_data = NoInput
    /\ result = NoResult
    /\ selected_depts = <<>>
    /\ selected_status = <<>>
    /\ filtered_df = EmptyFrame

\* model_columns.pkl holds one of the artifacts; load_resources() has not
\* been called yet.
Init ==
    /\ model_columns \in Artifacts
    /\ loads = 0
    /\ NoRun
    /\ LoggedInSession

\* Lines 99-129 have run: what the run leaves in its variables.
Shown(pre, run) ==
    /\ df' = run.df
    /\ processed_df' = pre.processed_df
    /\ dummies_df' = pre.dummies_df
    /\ encoded_df' = pre.encoded_df
    /\ processed_data' = pre.scaled_data
    /\ predictions' = run.predictions
    /\ probabilities' = run.probabilities
    /\ metrics' = run.metrics
    /\ error' = run.error
    /\ calls' = run.calls

\* Lines 100-129 on the matrix preprocess_input returned.
Classified(pre) == Shown(pre, Classify(pre, model_columns))

\* Lines 99-129: preprocess_input, whose line 72 iterates a set in an order
\* the language leaves open, then the classifier.
Predicted(enc) ==
    \E order \in IterationOrders(enc, model_columns) :
        Classified(AlignAndScale(enc, model_columns, order))

\* Lines 130-131: st.error, nothing else runs.
Rejected(file) ==
    /\ df' = file
    /\ processed_df' = EmptyFrame
    /\ dummies_df' = EmptyFrame
    /\ encoded_df' = EmptyFrame
    /\ processed_data' = <<>>
    /\ predictions' = <<>>
    /\ probabilities' = <<>>
    /\ metrics' = NoMetrics
    /\ error' = "Missing required columns"
    /\ calls' = <<>>

\* The script run that st.rerun() requested.
Rerun ==
    /\ rerun
    /\ pc = "idle"
    /\ Ran([kind |-> "rerun", username |-> "", password |-> ""],
           ScriptRun(script, environ, session_state,
                     [kind |-> "rerun", username |-> "", password |-> ""]))
    /\ UNCHANGED <<pc, model_columns, uploaded_file, df, processed_df,
                   dummies_df, encoded_df, processed_data, predictions,
                   probabilities, metrics, error, calls, input_data, result,
                   script, environ, dashVars>>

\* main_app is on the page and can be interacted with: the session runs
\* model.py and the latest run got past check_login (lines 171-172).
AppShown ==
    /\ script = "model.py"
    /\ page = "protected"
    /\ LoginFlag(script, session_state)
    /\ ~rerun

\* One script run of main_app with a file in the uploader (lines 91-131).
UploadCSV ==
    /\ pc = "idle"
    /\ AppShown
    /\ \E file \in UploadedFiles :
        /\ uploaded_file' = file
        /\ IF HasRequiredCols(file)
           THEN Predicted(BinAndEncode(file))
           ELSE Rejected(file)
    /\ pc' = "rendered"
    /\ input_data' = NoInput
    /\ result' = NoResult
    /\ loads' = LoadResources(loads)
    /\ UNCHANGED <<model_columns, authVars, dashVars>>

\* Lines 160-167 have run: what the run leaves in its variables.
Resulted(pre, run) ==
    /\ df' = run.df
    /\ processed_df' = pre.processed_df
    /\ dummies_df' = pre.dummies_df
    /\ encoded_df' = pre.encoded_df
    /\ processed_data' = pre.scaled_data
    /\ predictions' = run.predictions
    /\ probabilities' = run.probabilities
    /\ result' = run.result
    /\ error' = run.error
    /\ calls' = run.calls

\* Lines 160-167 on the matrix preprocess_input returned.
Answered(pre) == Resulted(pre, ManualResult(pre, model_columns))

\* Lines 159-167: preprocess_input, then the classifier.
Submitted(enc) ==
    \E order \in IterationOrders(enc, model_columns) :
        Answered(AlignAndScale(enc, model_columns, order))

\* One script run of main_app in which 'Predict' was clicked on the manual
\* form (lines 133-167).
ManualPredict ==
    /\ pc = "idle"
    /\ AppShown
    /\ \E form \in ManualInputs :
        /\ input_data' = form
        /\ Submitted(BinAndEncode(DataFrame(form)))
    /\ pc' = "result"
    /\ uploaded_file' = EmptyFrame
    /\ metrics' = NoMetrics
    /\ loads' = LoadResources(loads)
    /\ UNCHANGED <<model_columns, authVars, dashVars>>

\* The script run returns (line 172): its locals are released and the
\* session waits for the next interaction; the cached artifacts stay.
EndRun ==
    /\ pc \in {"rendered", "result", "called_again", "realigned"}
    /\ pc' = "idle"
    /\ uploaded_file' = EmptyFrame
    /\ df' = EmptyFrame
    /\ processed_df' = EmptyFrame
    /\ dummies_df' = EmptyFrame
    /\ encoded_df' = EmptyFrame
    /\ processed_data' = <<>>
    /\ predictions' = <<>>
    /\ probabilities' = <<>>
    /\ metrics' = NoMetrics
    /\ error' = ""
    /\ calls' = <<>>
    /\ input_data' = NoInput
    /\ result' = NoResult
    /\ UNCHANGED <<model_columns, loads, authVars, dashVars>>

Next == Rerun \/ UploadCSV \/ ManualPredict \/ EndRun

Spec == Init /\ [][Next]_vars

(***************************************************************************)
(* preprocess_input called a second time on equal records: on the frame    *)
(* the first call was given (which that call has changed) or on a fresh    *)
(* frame read from the same file.                                          *)
(***************************************************************************)
Returned(input, pre) ==
    /\ df' = IF input = df THEN pre.input_df ELSE df
    /\ processed_df' = pre.processed_df
    /\ dummies_df' = pre.dummies_df
    /\ encoded_df' = pre.encoded_df
    /\ processed_data' = pre.scaled_data
    /\ error' = pre.raised
    /\ calls' = calls \o pre.calls

Recalled(input, enc) ==
    \E order \in IterationOrders(enc, model_columns) :
        Returned(input, AlignAndScale(enc, model_columns, order))

CallAgain ==
    /\ pc = "rendered"
    /\ error = ""
    /\ \E input \in {df, uploaded_file} : Recalled(input, BinAndEncode(input))
    /\ pc' = "called_again"
    /\ UNCHANGED <<model_columns, uploaded_file, predictions, probabilities,
                   metrics, input_data, result, loads, authVars, dashVars>>

NextTwice == Rerun \/ UploadCSV \/ CallAgain \/ EndRun

SpecTwice == Init /\ [][NextTwice]_vars

(***************************************************************************)
(* The alignment lines (70-74) applied once more, to the frame they have   *)
(* aligned.                                                                *)
(***************************************************************************)
AlignAgain ==
    /\ pc = "rendered"
    /\ error = ""
    /\ \E order \in PermSeqs(MissingCols(encoded_df, model_columns)) :
        encoded_df' = Align(encoded_df, model_columns, order)
    /\ pc' = "realigned"
    /\ UNCHANGED <<model_columns, uploaded_file, df, processed_df, dummies_df,
                   processed_data, predictions, probabilities, metrics, error,
                   calls, input_data, result, loads, authVars, dashVars>>

NextRealign == Rerun \/ UploadCSV \/ AlignAgain \/ EndRun

SpecRealign == Init /\ [][NextRealign]_vars

(***************************************************************************)
(* A browser session of one of the three scripts: page loads, login        *)
(* submissions and clicks on Logout, each followed by a script run.        *)
(***************************************************************************)
Usernames == {"admin", "user", "guest"}

Passwords == {"admin@123", "user@123", "s3cret"}

\* os.environ: ADMIN_PW and USER_PW unset or set.
Environments ==
    {<<>>, ("ADMIN_PW" :> "s3cret"), ("USER_PW" :> "s3cret"),
     ("ADMIN_PW" :> "s3cret") @@ ("USER_PW" :> "admin@123")}

\* A new session: nothing in st.session_state, no script run yet.
InitAuth ==
    /\ script \in Scripts
    /\ environ \in Environments
    /\ session_state = <<>>
    /\ event = [kind |-> "none", username |-> "", password |-> ""]
    /\ page = "none"
    /\ rerun = FALSE
    /\ loads = 0
    /\ model_columns = TrainedColumns
    /\ NoRun

\* A script run triggered by (ev), on the session state as the callbacks of
\* the interaction left it.
Triggered(ev, state) ==
    /\ Ran(ev, ScriptRun(script, environ, state, ev))
    /\ UNCHANGED <<pc, model_columns, uploaded_file, df, processed_df,
                   dummies_df, encoded_df, processed_data, predictions,
                   probabilities, metrics, error, calls, input_data, result,
                   script, environ, dashVars>>

\* The page is opened, or a widget other than the login form and the Logout
\* button is used.
Interact ==
    /\ ~rerun
    /\ Triggered([kind |-> "load", username |-> "", password |-> ""],
                 session_state)

\* The login form on the page is submitted.
SubmitLogin ==
    /\ ~rerun
    /\ page \in {"login", "login_invalid"}
    /\ \E username \in Usernames, password \in Passwords :
        Triggered([kind |-> "submit", username |-> username,
                   password |-> password],
                  session_state)

\* The Logout button on the page is clicked: the callback runs, then the
\* script.
ClickLogout ==
    /\ ~rerun
    /\ page = "protected"
    /\ Triggered([kind |-> "logout", username |-> "", password |-> ""],
                 logout(script, session_state))

NextAuth == Interact \/ SubmitLogin \/ ClickLogout \/ Rerun

SpecAuth == InitAuth /\ [][NextAuth]_vars

\* st.rerun() ends the current run and Streamlit starts the requested run at
\* once, without waiting for the user.
SpecAuthLive == InitAuth /\ [][NextAuth]_vars /\ WF_vars(Rerun)

(***************************************************************************)
(* pythondash.py: the CSV (lines 54-58), the sidebar's selections (lines   *)
(* 97-136) and the filters (lines 139-150).                                *)
(***************************************************************************)
NaT == "NaT"

\* pd.to_datetime(text, dayfirst=True), lines 57-58: an empty cell becomes
\* NaT, a day-first date the timestamp of that day.
ToDatetime(text) ==
    CASE text = "" -> NaT
      [] text = "31-01-2020" -> "2020-01-31 00:00:00"
      [] text = "01-02-2015" -> "2015-02-01 00:00:00"

RECURSIVE BoolIndex(_, _)
\* values[mask]: the entries whose mask is True, in their order.
BoolIndex(values, mask) ==
    IF values = <<>> THEN <<>>
    ELSE (IF Head(mask) THEN <<Head(values)>> ELSE <<>>)
             \o BoolIndex(Tail(values), Tail(mask))

\* Series.unique(): the distinct values in the order of first appearance.
Unique(col) ==
    BoolIndex(col, Tuple([i \in 1..Len(col) |->
                             \A j \in 1..(i - 1) : col[j] # col[i]], Len(col)))

\* Series.isna(), Series.notna() and Series.isin(values).
IsNa(col) == Tuple([i \in 1..Len(col) |-> col[i] \in {NaT, NaN}], Len(col))

NotNa(col) == Tuple([i \in 1..Len(col) |-> col[i] \notin {NaT, NaN}], Len(col))

IsIn(col, values) ==
    Tuple([i \in 1..Len(col) |-> col[i] \in Range(values)], Len(col))

\* mask & mask.
MaskAnd(a, b) == Tuple([i \in 1..Len(a) |-> a[i] /\ b[i]], Len(a))

RECURSIVE LogicalAndReduce(_)
\* Faulty variant of LogicalOrReduce: np.logical_and.reduce.
LogicalAndReduce(conditions) ==
    IF Len(conditions) = 1 THEN conditions[1]
    ELSE MaskAnd(Head(conditions), LogicalAndReduce(Tail(conditions)))

RECURSIVE LogicalOrReduce(_)
\* np.logical_or.reduce(status_conditions), line 147, of a non-empty list.
LogicalOrReduce(conditions) ==
    IF Len(conditions) = 1 THEN conditions[1]
    ELSE LET rest == LogicalOrReduce(Tail(conditions))
         IN  Tuple([i \in 1..Len(rest) |-> Head(conditions)[i] \/ rest[i]],
                   Len(rest))

\* Line 128.
status_options == <<"Active", "Left">>

\* Lines 139-143: the masks appended to status_conditions.
StatusConditions(frame, status) ==
    (IF "Active" \in Range(status) THEN <<IsNa(Column(frame, "last_date"))>>
     ELSE <<>>)
        \o (IF "Left" \in Range(status)
            THEN <<NotNa(Column(frame, "last_date"))>> ELSE <<>>)

\* Lines 146-150: filtered_df.
FilteredFrame(frame, depts, status) ==
    LET status_conditions == StatusConditions(frame, status)
        in_depts == IsIn(Column(frame, "dept_name"), depts)
    IN  [cols |-> frame.cols,
         rows |-> IF status_conditions # <<>>
                  THEN BoolIndex(frame.rows,
                                 MaskAnd(in_depts,
                                         LogicalOrReduce(status_conditions)))
                  ELSE BoolIndex(frame.rows, in_depts)]

\* The lists a column of checkboxes can leave: the ticked options, in the
\* order of the options.
Ticked(options) ==
    {BoolIndex(options, Tuple(mask, Len(options))) :
        mask \in [1..Len(options) -> BOOLEAN]}

\* The rows of the CSV: a department or none, a last date or none.
CsvRows ==
    [dept_name : {"Sales", "Tech", NaN}, last_date : {"", "31-01-2020"}]

\* Lines 54-58: pd.read_csv and the conversion of the date columns.
ReadDashboardCsv(lines) ==
    [cols |-> <<"emp_no", "dept_name", "hire_date", "last_date">>,
     rows |-> Tuple([i \in 1..Len(lines) |->
                        [emp_no |-> 10000 + i,
                         dept_name |-> lines[i].dept_name,
                         hire_date |-> ToDatetime("01-02-2015"),
                         last_date |-> ToDatetime(lines[i].last_date)]],
                    Len(lines))]

DashboardFrames ==
    {ReadDashboardCsv(lines) : lines \in UNION {[1..n -> CsvRows] : n \in 1..MaxRows}}

\* An authenticated session of pythondash.py whose run has read the CSV.
InitFilter ==
    /\ script = "pythondash.py"
    /\ environ = <<>>
    /\ session_state = ("authenticated" :> TRUE) @@ ("username" :> "admin")
    /\ event = [kind |-> "load", username |-> "", password |-> ""]
    /\ page = "protected"
    /\ rerun = FALSE
    /\ loads = 0
    /\ model_columns = TrainedColumns
    /\ pc = "idle"
    /\ uploaded_file = EmptyFrame
    /\ df \in DashboardFrames
    /\ processed_df = EmptyFrame
    /\ dummies_df = EmptyFrame
    /\ encoded_df = EmptyFrame
    /\ processed_data = <<>>
    /\ predictions = <<>>
    /\ probabilities = <<>>
    /\ metrics = NoMetrics
    /\ error = ""
    /\ calls = <<>>
    /\ input_data = NoInput
    /\ result = NoResult
    /\ selected_depts = <<>>
    /\ selected_status = <<>>
    /\ filtered_df = EmptyFrame

\* One run of the dashboard past the login gate, lines 97-150: the sidebar
\* shows a checkbox per department of df and per status, and the filters
\* are applied; a missing department ends the run at line 108, where
\* dept.lower() is called on it.
FilterDashboard ==
    /\ script = "pythondash.py"
    /\ page = "protected"
    /\ LoginFlag(script, session_state)
    /\ pc \in {"idle", "filtered"}
    /\ IF NaN \in Range(Unique(Column(df, "dept_name")))
       THEN /\ error' = "AttributeError"
            /\ selected_depts' = <<>>
            /\ selected_status' = <<>>
            /\ filtered_df' = EmptyFrame
       ELSE /\ error' = ""
            /\ \E depts \in Ticked(Unique(Column(df, "dept_name"))),
                  status \in Ticked(status_options) :
                /\ selected_depts' = depts
                /\ selected_status' = status
                /\ filtered_df' = FilteredFrame(df, depts, status)
    /\ pc' = "filtered"
    /\ UNCHANGED <<model_columns, uploaded_file, df, processed_df, dummies_df,
                   encoded_df, processed_data, predictions, probabilities,
                   metrics, calls, input_data, result, loads, authVars>>

NextFilter == FilterDashboard

SpecFilter == InitFilter /\ [][NextFilter]_vars

(***************************************************************************)
(* The binning lines alone (50-60), on one-record frames whose age,        *)
(* tenure and salary range over and beyond the bins.                       *)
(***************************************************************************)
AgeValues == (age_bins[1] - Margin)..(age_bins[Len(age_bins)] + Margin)

TenureValues ==
    (tenure_bins[1] - Margin)..(tenure_bins[Len(tenure_bins)] + Margin)

\* The salaries around every boundary, and the example's.
SalaryValues ==
    {BaseRecord.salary}
        \cup UNION {(salary_bins[i] - Margin)..(salary_bins[i] + Margin) :
                      i \in 1..Len(salary_bins)}

BinInputs ==
    {ReadCsv(required_cols,
             <<[BaseRecord EXCEPT !.age = a, !.tenure = t, !.salary = s]>>) :
        a \in AgeValues, t \in TenureValues, s \in SalaryValues}

InitBin ==
    /\ model_columns = TrainedColumns
    /\ pc = "idle"
    /\ uploaded_file \in BinInputs
    /\ df = EmptyFrame
    /\ processed_df = EmptyFrame
    /\ dummies_df = EmptyFrame
    /\ encoded_df = EmptyFrame
    /\ processed_data = <<>>
    /\ predictions = <<>>
    /\ probabilities = <<>>
    /\ metrics = NoMetrics
    /\ error = ""
    /\ calls = <<>>
    /\ input_data = NoInput
    /\ result = NoResult
    /\ loads = 0
    /\ LoggedInSession
    /\ selected_depts = <<>>
    /\ selected_status = <<>>
    /\ filtered_df = EmptyFrame

\* Lines 50-60 applied to the frame.
BinRecord ==
    /\ pc = "idle"
    /\ df' = BinSalary(BinTenure(BinAge(uploaded_file)))
    /\ calls' = <<"pd.cut", "pd.cut", "pd.cut">>
    /\ pc' = "binned"
    /\ UNCHANGED <<model_columns, uploaded_file, processed_df, dummies_df,
                   encoded_df, processed_data, predictions, probabilities,
                   metrics, error, input_data, result, loads, authVars,
                   dashVars>>

NextBin == BinRecord

SpecBin == InitBin /\ [][NextBin]_vars

(***************************************************************************)
(* Properties.                                                             *)
(***************************************************************************)
\* The eight required column names, as the interface lists them.
StatedRequired ==
    {"age", "tenure", "salary", "dept_name", "title", "sex",
     "Last_performance_rating", "no_of_projects"}

\* The run preprocessed and classified an uploaded batch.
Processed == pc = "rendered" /\ error = "" /\ Len(uploaded_file.rows) >= 1

\* A record with a value outside every bin of its feature.
OutOfRange(row) ==
    \/ row["age"] < 21 \/ row["age"] >= 62
    \/ row["tenure"] < 0 \/ row["tenure"] >= 30
    \/ row["salary"] < 40000 \/ row["salary"] >= 130000

\* C1: a batch holding a record whose age, tenure or salary lies outside
\* every bin ends with an error shown and is neither encoded, scaled nor
\* classified.
C1_OutOfRangeSignalled ==
    (/\ pc = "rendered"
     /\ StatedRequired \subseteq Range(uploaded_file.cols)
     /\ \E i \in 1..Len(uploaded_file.rows) : OutOfRange(uploaded_file.rows[i]))
        => /\ error # ""
           /\ dummies_df = EmptyFrame
           /\ processed_data = <<>>
           /\ predictions = <<>>

\* The label of the half-open interval [bins[i], bins[i+1]) holding x.
IntervalLabel(x, bins, labels, got) ==
    \A i \in 1..(Len(bins) - 1) :
        (bins[i] <= x /\ x < bins[i + 1]) => got = labels[i]

\* C2: every in-range age, tenure and salary gets the label of the one
\* half-open interval [lower, upper) that holds it; 21 and 28 are '21-28',
\* 29 and 30 '29-36', 61 '54-61'; tenure 5 is '0-5' and 6 '6-11'; salary
\* 55000 is 'low' and 60000 'medium'.
C2_HalfOpenBinning ==
    pc = "binned" =>
        LET r == uploaded_file.rows[1]
            b == df.rows[1]
        IN  /\ IntervalLabel(r["age"], <<21, 29, 37, 46, 54, 62>>,
                             <<"21-28", "29-36", "37-45", "46-53", "54-61">>,
                             b["age_group"])
            /\ IntervalLabel(r["tenure"], <<0, 6, 12, 18, 24, 30>>,
                             <<"0-5", "6-11", "12-17", "18-23", "24-29">>,
                             b["tenure_group"])
            /\ IntervalLabel(r["salary"], <<40000, 60000, 80000, 100000, 130000>>,
                             <<"low", "medium", "high", "very_high">>,
                             b["salary_bin"])
            /\ r["age"] \in {21, 28} => b["age_group"] = "21-28"
            /\ r["age"] \in {29, 30} => b["age_group"] = "29-36"
            /\ r["age"] = 61 => b["age_group"] = "54-61"
            /\ r["tenure"] = 5 => b["tenure_group"] = "0-5"
            /\ r["tenure"] = 6 => b["tenure_group"] = "6-11"
            /\ r["salary"] = 55000 => b["salary_bin"] = "low"
            /\ r["salary"] = 60000 => b["salary_bin"] = "medium"

\* C2 witness: a record on three lower boundaries has been binned.
C2_Witness ==
    /\ pc = "binned"
    /\ uploaded_file.rows[1]["age"] = 29
    /\ uploaded_file.rows[1]["tenure"] = 6
    /\ uploaded_file.rows[1]["salary"] = 60000
    /\ df.rows[1]["age_group"] = "29-36"
    /\ df.rows[1]["tenure_group"] = "6-11"
    /\ df.rows[1]["salary_bin"] = "medium"

\* The aligned row preprocess_input builds for record i of the file when
\* the record is uploaded alone.
AlignedAlone(file, i) ==
    LET alone == [cols |-> file.cols, rows |-> <<file.rows[i]>>]
        order == CHOOSE o \in IterationOrders(BinAndEncode(alone), model_columns) :
                    TRUE
    IN  PreprocessInput(alone, model_columns, order).encoded_df.rows[1]

\* C3: the aligned row of a record does not depend on the other records of
\* the batch: it is the row the record gets when uploaded alone (stated for
\* batches whose records are all inside the bins).
C3_RowIndependentOfBatch ==
    (/\ Processed
     /\ \A i \in 1..Len(uploaded_file.rows) : ~OutOfRange(uploaded_file.rows[i]))
    =>  \A i \in 1..Len(uploaded_file.rows) :
            encoded_df.rows[i] = AlignedAlone(uploaded_file, i)

\* C4: after alignment the frame's columns are model_columns in their
\* order; a canonical column get_dummies did not generate is all zero, one
\* it generated keeps its values, and every other generated column is gone.
C4_AlignedToCanonical ==
    Processed =>
        /\ encoded_df.cols = model_columns
        /\ \A i \in 1..Len(encoded_df.rows) :
            /\ DOMAIN encoded_df.rows[i] = Range(model_columns)
            /\ \A c \in Range(model_columns) :
                encoded_df.rows[i][c] =
                    IF c \in Range(dummies_df.cols) THEN dummies_df.rows[i][c]
                    ELSE 0

\* C4 witness: alignment added a column, discarded one and kept an
\* indicator that is set.
C4_Witness ==
    /\ Processed
    /\ Range(model_columns) \ Range(dummies_df.cols) # {}
    /\ Range(dummies_df.cols) \ Range(model_columns) # {}
    /\ \E i \in 1..Len(encoded_df.rows) :
        \E c \in Range(dummies_df.cols) \cap Range(model_columns) :
            c # "no_of_projects" /\ encoded_df.rows[i][c] = 1

\* C5: a batch lacking a required column gets the missing-columns error and
\* nothing else: no library call of preprocessing, scaling or classification
\* is made, df is the file as read, with no Prediction or Probability column.
C5_MissingColumnsRejected ==
    (pc = "rendered" /\ ~(StatedRequired \subseteq Range(uploaded_file.cols)))
        => /\ error = "Missing required columns"
           /\ calls = <<>>
           /\ df = uploaded_file
           /\ processed_df = EmptyFrame
           /\ dummies_df = EmptyFrame
           /\ encoded_df = EmptyFrame
           /\ processed_data = <<>>
           /\ predictions = <<>>
           /\ probabilities = <<>>
           /\ {"Prediction", "Probability"} \cap Range(df.cols) = {}

\* C5 witness: a file without the salary column was rejected.
C5_Witness ==
    /\ pc = "rendered"
    /\ "salary" \notin Range(uploaded_file.cols)
    /\ "age" \in Range(uploaded_file.cols)
    /\ error = "Missing required columns"

\* C6: for a batch of n >= 1 records with the required columns, the matrix
\* the scaler returns has n rows of len(model_columns) values each.
C6_MatrixShape ==
    (/\ pc = "rendered"
     /\ StatedRequired \subseteq Range(uploaded_file.cols)
     /\ Len(uploaded_file.rows) >= 1)
        => /\ Len(processed_data) = Len(uploaded_file.rows)
           /\ \A i \in 1..Len(processed_data) :
                Len(processed_data[i]) = Len(model_columns)

\* C6 witness: a two-record batch whose encoding generated a column that is
\* not canonical and lacked a canonical one was scaled.
C6_Witness ==
    /\ pc = "rendered"
    /\ Len(uploaded_file.rows) = 2
    /\ Len(processed_data) = 2
    /\ Range(dummies_df.cols) \ Range(model_columns) # {}
    /\ Range(model_columns) \ Range(dummies_df.cols) # {}
    /\ Len(dummies_df.cols) # Len(model_columns)

\* Every value a feature column may hold.
Universe(c) ==
    IF c \in BinnedCols THEN Range(Categories(c)) ELSE Range(SortedVocabulary(c))

\* The distinct categories observed in column c of the encoded frame.
ObservedCategories(c) ==
    {processed_df.rows[i][c] : i \in 1..Len(processed_df.rows)} \cap Universe(c)

\* The indicator columns get_dummies generated for column c.
GeneratedFor(c) ==
    {n \in Range(dummies_df.cols) : \E v \in Universe(c) : n = c \o "_" \o v}

\* C7 as stated: every categorical column, the binned ones included, with
\* k >= 1 distinct observed categories yields k - 1 indicator columns.
C7_ObservedMinusOne ==
    Processed =>
        \A c \in BinnedCols \cup ObjectCols :
            Cardinality(ObservedCategories(c)) >= 1 =>
                Cardinality(GeneratedFor(c)) =
                    Cardinality(ObservedCategories(c)) - 1

\* C7 as amended: a text column with k >= 1 distinct observed values yields
\* k - 1 indicator columns and none when it holds no value; a binned column
\* yields one column per label but the first (4, 4 and 3), whatever the
\* batch holds.
C7_IndicatorCount ==
    Processed =>
        /\ \A c \in {"dept_name", "title", "sex", "Last_performance_rating"} :
              Cardinality(GeneratedFor(c)) =
                  IF ObservedCategories(c) = {} THEN 0
                  ELSE Cardinality(ObservedCategories(c)) - 1
        /\ Cardinality(GeneratedFor("age_group")) = 4
        /\ Cardinality(GeneratedFor("tenure_group")) = 4
        /\ Cardinality(GeneratedFor("salary_bin")) = 3

\* C7 witness: a batch with two departments, one sex and a single age
\* bucket was encoded.
C7_Witness ==
    /\ Processed
    /\ Cardinality(ObservedCategories("dept_name")) = 2
    /\ Cardinality(GeneratedFor("dept_name")) = 1
    /\ Cardinality(ObservedCategories("sex")) = 1
    /\ Cardinality(ObservedCategories("age_group")) = 1

\* C8: a batch of N records with the required columns gets N predictions
\* and N probabilities, one Prediction and one Probability per row, and the
\* metrics total = N and stay + leave = N.
C8_BatchCounts ==
    (pc = "rendered" /\ StatedRequired \subseteq Range(uploaded_file.cols)) =>
        LET N == Len(uploaded_file.rows)
        IN  /\ Len(predictions) = N
            /\ Len(probabilities) = N
            /\ Len(df.rows) = N
            /\ \A i \in 1..N :
                /\ {"Prediction", "Probability"} \subseteq DOMAIN df.rows[i]
                /\ df.rows[i]["Prediction"] \in {"Leave", "Stay"}
            /\ metrics.total = N
            /\ metrics.stay + metrics.leave = N

\* C8 witness: a two-record batch with one record staying and one leaving.
C8_Witness ==
    /\ pc = "rendered"
    /\ Len(uploaded_file.rows) = 2
    /\ metrics.total = 2
    /\ metrics.stay = 1
    /\ metrics.leave = 1

\* C9: after a batch prediction the caller's frame is the uploaded frame,
\* columns and values unchanged, plus the Prediction and Probability columns
\* and nothing else.
C9_OnlyPredictionColumnsAdded ==
    Processed =>
        /\ df.cols = uploaded_file.cols \o <<"Prediction", "Probability">>
        /\ \A i \in 1..Len(uploaded_file.rows) :
            \A c \in Range(uploaded_file.cols) :
                df.rows[i][c] = uploaded_file.rows[i][c]

\* The bucket labels of every record of a frame.
Buckets(frame) == SelectColumns(frame, <<"age_group", "tenure_group", "salary_bin">>)

\* C10: a second call of preprocess_input on equal records, with the same
\* model_columns and scaler, returns the matrix the first call returned and
\* bins every record into the same three buckets.
C10_SecondCallAgrees ==
    [][(pc = "rendered" /\ pc' = "called_again")
          => /\ processed_data' = processed_data
             /\ Buckets(processed_df') = Buckets(processed_df)
             /\ error' = ""]_vars

\* C10 witness: the second call has returned for a batch for which
\* alignment had several columns to add.
C10_Witness ==
    /\ pc = "called_again"
    /\ Len(processed_data) = 2
    /\ Cardinality(Range(model_columns) \ Range(dummies_df.cols)) >= 2

\* The manual branch classified a submitted form.
Answer == pc = "result" /\ error = ""

\* C11: the label of a record is 'Leave' (manual: "will leave") exactly when
\* predict returned 1 for it and 'Stay' ("will stay") exactly when it
\* returned 0, for every row of a batch and for a submitted form.
C11_LabelFromPredict ==
    /\ Processed =>
          /\ predictions = Predict(processed_data, model_columns)
          /\ \A i \in 1..Len(uploaded_file.rows) :
                /\ predictions[i] \in {0, 1}
                /\ df.rows[i]["Prediction"] = "Leave" <=> predictions[i] = 1
                /\ df.rows[i]["Prediction"] = "Stay" <=> predictions[i] = 0
    /\ Answer =>
          /\ predictions = Predict(processed_data, model_columns)
          /\ Len(predictions) = 1
          /\ predictions[1] \in {0, 1}
          /\ result.outcome = "Employee will leave" <=> predictions[1] = 1
          /\ result.outcome = "Employee will stay" <=> predictions[1] = 0

\* C11 witness: a submitted form was answered "will leave".
C11_Witness ==
    /\ Answer
    /\ predictions = <<1>>
    /\ result.outcome = "Employee will leave"

\* C12: the probability reported for a record is the classifier's
\* probability of class 1 for it, in the Probability column of a batch and
\* next to the result of a submitted form, whatever the label.
C12_LeaveProbabilityReported ==
    /\ Processed =>
          /\ probabilities = PredictProba(processed_data, model_columns)
          /\ \A i \in 1..Len(uploaded_file.rows) :
                df.rows[i]["Probability"] = probabilities[i]
    /\ Answer =>
          /\ probabilities = PredictProba(processed_data, model_columns)
          /\ result.probability = probabilities[1]

\* C13: the alignment lines applied to a frame already aligned to
\* model_columns return that frame: same columns, same order, same values.
C13_AlignIdempotent ==
    [][(pc = "rendered" /\ pc' = "realigned") => encoded_df' = encoded_df]_vars

\* C13 witness: a frame was aligned once more whose first alignment had added
\* and discarded columns and which holds an indicator that is set.
C13_Witness ==
    /\ pc = "realigned"
    /\ Range(model_columns) \ Range(dummies_df.cols) # {}
    /\ Range(dummies_df.cols) \ Range(model_columns) # {}
    /\ \E i \in 1..Len(encoded_df.rows) : encoded_df.rows[i][model_columns[1]] = 1

\* The run called preprocess_input: an upload with the required columns or
\* a submitted form.
Invoked ==
    \/ pc = "rendered" /\ StatedRequired \subseteq Range(uploaded_file.cols)
    \/ pc = "result"

\* C14: a prediction invocation runs binning, feature selection, one-hot
\* encoding, alignment, scaling and the classifier in this order:
\* scaler.transform is called once, on the aligned frame, after get_dummies
\* and the three cuts, and predict and predict_proba are called after it, on
\* the matrix it returned.
C14_PipelineOrder ==
    Invoked =>
        /\ calls = <<"pd.cut", "pd.cut", "pd.cut", "pd.get_dummies",
                     "scaler.transform", "model.predict", "model.predict_proba">>
        /\ Cardinality({k \in 1..Len(calls) : calls[k] = "scaler.transform"}) = 1
        /\ {"age_group", "tenure_group", "salary_bin"} \subseteq Range(df.cols)
        /\ processed_df.cols =
              <<"no_of_projects", "salary_bin", "age_group", "tenure_group",
                "dept_name", "title", "sex", "Last_performance_rating">>
        /\ \A i \in 1..Len(processed_df.rows) :
              \A c \in Range(processed_df.cols) :
                  processed_df.rows[i][c] = df.rows[i][c]
        /\ dummies_df = GetDummies(processed_df)
        /\ encoded_df.cols = model_columns
        /\ \A i \in 1..Len(encoded_df.rows) :
              \A c \in Range(model_columns) :
                  encoded_df.rows[i][c] =
                      IF c \in Range(dummies_df.cols) THEN dummies_df.rows[i][c]
                      ELSE 0
        /\ processed_data = ScalerTransform(encoded_df, model_columns)
        /\ predictions = Predict(processed_data, model_columns)
        /\ probabilities = PredictProba(processed_data, model_columns)

\* C14 witness: a two-record upload went through the whole pipeline, with
\* alignment adding and discarding columns.
C14_Witness ==
    /\ Invoked
    /\ Len(uploaded_file.rows) = 2
    /\ Len(calls) = 7
    /\ Range(model_columns) \ Range(dummies_df.cols) # {}
    /\ Range(dummies_df.cols) \ Range(model_columns) # {}
    /\ Len(predictions) = 2

\* The records the run was given: the rows of the upload or the form.
GivenRows == IF pc = "result" THEN <<input_data>> ELSE uploaded_file.rows

\* C15: the frame handed to get_dummies has exactly the eight columns
\* no_of_projects, salary_bin, age_group, tenure_group, dept_name, title, sex
\* and Last_performance_rating; raw age, tenure and salary and any extra
\* column of the input are not encoded, and no_of_projects comes out of the
\* encoding as the number it was, next to indicator columns only.
C15_EightColumnsEncoded ==
    Invoked =>
        /\ Len(processed_df.cols) = 8
        /\ Range(processed_df.cols) =
              {"no_of_projects", "salary_bin", "age_group", "tenure_group",
               "dept_name", "title", "sex", "Last_performance_rating"}
        /\ \A i \in 1..Len(processed_df.rows) :
              DOMAIN processed_df.rows[i] = Range(processed_df.cols)
        /\ Range(dummies_df.cols) \cap {"age", "tenure", "salary", "emp_no"} = {}
        /\ "no_of_projects" \in Range(dummies_df.cols)
        /\ Len(dummies_df.rows) = Len(GivenRows)
        /\ \A i \in 1..Len(dummies_df.rows) :
              /\ DOMAIN dummies_df.rows[i] = Range(dummies_df.cols)
              /\ dummies_df.rows[i]["no_of_projects"] =
                    GivenRows[i]["no_of_projects"]
              /\ \A n \in Range(dummies_df.cols) \ {"no_of_projects"} :
                    /\ \E c \in BinnedCols \cup ObjectCols : n \in GeneratedFor(c)
                    /\ dummies_df.rows[i][n] \in {0, 1}

\* C15 witness: an upload with an employee number next to the required
\* columns was encoded.
C15_Witness ==
    /\ Invoked
    /\ "emp_no" \in Range(uploaded_file.cols)
    /\ "emp_no" \in Range(df.cols)
    /\ Len(processed_df.cols) = 8
    /\ Len(dummies_df.rows) = 2

\* C16: over any sequence of script runs the body of load_resources runs at
\* most once, and no step, a call of preprocess_input included, changes the
\* content or the order of model_columns.
C16_ArtifactsLoadedOnceAndKept ==
    [][/\ model_columns' = model_columns
       /\ loads' >= loads
       /\ loads' <= 1]_vars

\* C16 witness: a run that called load_resources and preprocess_input has
\* ended, so that every further run finds the artifacts in the cache.
C16_Witness ==
    /\ pc = "idle"
    /\ loads = 1
    /\ model_columns \in Artifacts

\* The frame the run handed to preprocess_input, as it was before the call.
GivenFrame == IF pc = "result" THEN DataFrame(input_data) ELSE uploaded_file

\* The raw column a bucket column is cut from, and its boundaries.
RawOf(c) ==
    CASE c = "age_group" -> "age"
      [] c = "tenure_group" -> "tenure"
      [] c = "salary_bin" -> "salary"

BoundariesOf(c) ==
    CASE c = "age_group" -> <<21, 29, 37, 46, 54, 62>>
      [] c = "tenure_group" -> <<0, 6, 12, 18, 24, 30>>
      [] c = "salary_bin" -> <<40000, 60000, 80000, 100000, 130000>>

\* x lies outside every interval of the boundaries.
Outside(x, bounds) == x < bounds[1] \/ x >= bounds[Len(bounds)]

\* The aligned row preprocess_input builds for record i of a frame.
AlignedRow(frame, i) ==
    LET order == CHOOSE o \in IterationOrders(BinAndEncode(frame), model_columns) :
                    TRUE
    IN  PreprocessInput(frame, model_columns, order).encoded_df.rows[i]

\* C17: a value of age, tenure or salary outside every bin raises no error;
\* the record's bucket is missing, no indicator of that feature is set for
\* it, every canonical indicator column of the feature is 0 in its aligned
\* row, and that row is the one the record gets with the value moved into
\* the first bucket of the feature.
C17_OutOfRangeAsFirstBucket ==
    Invoked =>
        \A i \in 1..Len(GivenRows) :
            \A c \in {"age_group", "tenure_group", "salary_bin"} :
                Outside(GivenRows[i][RawOf(c)], BoundariesOf(c)) =>
                    /\ error = ""
                    /\ df.rows[i][c] = "NaN"
                    /\ \A n \in GeneratedFor(c) : dummies_df.rows[i][n] = 0
                    /\ \A n \in Range(model_columns) :
                          (\E v \in Universe(c) : n = c \o "_" \o v)
                              => encoded_df.rows[i][n] = 0
                    /\ encoded_df.rows[i] =
                          AlignedRow([GivenFrame EXCEPT
                                         !.rows[i][RawOf(c)] = BoundariesOf(c)[1]],
                                     i)

\* C17 witness: a two-record upload whose second record is aged 62 was
\* classified.
C17_Witness ==
    /\ Processed
    /\ Len(uploaded_file.rows) = 2
    /\ uploaded_file.rows[2]["age"] = 62
    /\ df.rows[2]["age_group"] = "NaN"
    /\ Len(predictions) = 2

\* The buckets preprocess_input gave the submitted form.
FormBuckets == df.rows[1]

\* C18 as stated: every age in 21..61, tenure in 0..29 and salary in
\* 40000..130000, bounds included, that the form submits gets a defined
\* bucket.
C18_FormValuesBinEligible ==
    (/\ Answer
     /\ input_data.age \in 21..61
     /\ input_data.tenure \in 0..29
     /\ input_data.salary \in 40000..130000)
        => /\ FormBuckets["age_group"] # "NaN"
           /\ FormBuckets["tenure_group"] # "NaN"
           /\ FormBuckets["salary_bin"] # "NaN"

\* C18 as amended: every age in 21..61, tenure in 0..29 and salary in
\* 40000..129999 that the form submits gets a defined bucket; the salary
\* 130000, which the number input accepts, gets none.
C18_FormValuesBelowMaximumEligible ==
    Answer =>
        /\ input_data.age \in 21..61 => FormBuckets["age_group"] # "NaN"
        /\ input_data.tenure \in 0..29 => FormBuckets["tenure_group"] # "NaN"
        /\ input_data.salary \in 40000..129999 => FormBuckets["salary_bin"] # "NaN"
        /\ input_data.salary = 130000 => FormBuckets["salary_bin"] = "NaN"

\* C18 witness: a form with the largest salary of the number input was
\* answered.
C18_Witness ==
    /\ Answer
    /\ input_data.salary = 130000
    /\ input_data.age \in 21..61
    /\ input_data.tenure \in 0..29
    /\ result.outcome # ""

\* The given one-record frame with other entries in its four text columns.
WithTexts(frame, d, t, x, r) ==
    [frame EXCEPT !.rows[1]["dept_name"] = d, !.rows[1]["title"] = t,
                  !.rows[1]["sex"] = x, !.rows[1]["Last_performance_rating"] = r]

\* What preprocess_input and the classifier return for a frame.
Outcomes(frame) ==
    LET order == CHOOSE o \in IterationOrders(BinAndEncode(frame), model_columns) :
                    TRUE
        pre == PreprocessInput(frame, model_columns, order)
    IN  [aligned |-> pre.encoded_df.rows,
         matrix |-> pre.scaled_data,
         predictions |-> Predict(pre.scaled_data, model_columns),
         probabilities |-> PredictProba(pre.scaled_data, model_columns)]

\* C19: for a single record, a submitted form in particular, get_dummies
\* generates no indicator for dept_name, title, sex and
\* Last_performance_rating, every canonical column derived from them is 0
\* after alignment, and the record with any other department, title, sex
\* and rating gets the same aligned row, prediction and probability.
C19_SingleRecordIgnoresTexts ==
    (Invoked /\ Len(GivenRows) = 1) =>
        /\ \A c \in {"dept_name", "title", "sex", "Last_performance_rating"} :
              /\ GeneratedFor(c) = {}
              /\ \A n \in Range(model_columns) :
                    (\E v \in Universe(c) : n = c \o "_" \o v)
                        => encoded_df.rows[1][n] = 0
        /\ \A d \in Universe("dept_name"), t \in Universe("title"),
              x \in Universe("sex"), r \in Universe("Last_performance_rating") :
              Outcomes(WithTexts(GivenFrame, d, t, x, r)) =
                  [aligned |-> encoded_df.rows, matrix |-> processed_data,
                   predictions |-> predictions, probabilities |-> probabilities]

\* C19 witness: a form for a man in Sales was answered, with the Sales and
\* the male indicator both 0 in its aligned row.
C19_Witness ==
    /\ Answer
    /\ input_data.dept_name = "Sales"
    /\ input_data.sex = "M"
    /\ encoded_df.rows[1]["dept_name_Sales"] = 0
    /\ encoded_df.rows[1]["sex_M"] = 0

\* The credentials configured for a script: admin / admin@123 in model.py;
\* admin and user with the passwords of ADMIN_PW and USER_PW, admin@123 and
\* user@123 where unset, in newpy.py and pythondash.py.
Configured(scr, env, username, password) ==
    IF scr = "model.py" THEN username = "admin" /\ password = "admin@123"
    ELSE \/ /\ username = "admin"
            /\ password = IF "ADMIN_PW" \in DOMAIN env THEN env["ADMIN_PW"]
                          ELSE "admin@123"
         \/ /\ username = "user"
            /\ password = IF "USER_PW" \in DOMAIN env THEN env["USER_PW"]
                          ELSE "user@123"

\* C20: in each script a run renders protected content, and model.py loads
\* the artifacts, only with the session's login flag true, and the flag
\* turns true only in a run triggered by a login submission whose username
\* and password are a configured credential.
C20_ProtectedBehindLogin ==
    [][/\ page' = "protected" => LoginFlag(script', session_state')
       /\ loads' # loads => LoginFlag(script', session_state')
       /\ (LoginFlag(script', session_state')
              /\ ~LoginFlag(script, session_state))
            => /\ event'.kind = "submit"
               /\ Configured(script', environ', event'.username,
                             event'.password)]_vars

\* C20 witness: the dashboard of pythondash.py is shown to user, who logged
\* in with the password set in USER_PW.
C20_Witness ==
    /\ script = "pythondash.py"
    /\ "USER_PW" \in DOMAIN environ
    /\ page = "protected"
    /\ LoginFlag(script, session_state)
    /\ session_state["username"] = "user"

\* C21: in each script, the run that follows the Logout callback in an
\* authenticated session finds the login flag false (in newpy.py and
\* pythondash.py the session state holds nothing but the re-initialised
\* flag), shows the login form and loads nothing; and while the flag is
\* false, a run that is not triggered by a login submission with a
\* configured credential leaves it false and renders no protected content.
C21_LogoutEndsAccess ==
    [][/\ (LoginFlag(script, session_state) /\ event'.kind = "logout")
            => /\ FlagKey(script') \in DOMAIN session_state'
               /\ ~LoginFlag(script', session_state')
               /\ script' # "model.py"
                    => session_state' = ("authenticated" :> FALSE)
               /\ page' = "login"
               /\ ~rerun'
               /\ loads' = loads
       /\ (/\ ~LoginFlag(script, session_state)
           /\ ~(/\ event'.kind = "submit"
                /\ Configured(script', environ', event'.username,
                              event'.password)))
            => /\ ~LoginFlag(script', session_state')
               /\ page' # "protected"
               /\ loads' = loads]_vars

\* C21 witness: Logout was clicked on the dashboard of newpy.py and the run
\* after the callback shows the login form.
C21_Witness ==
    /\ script = "newpy.py"
    /\ event.kind = "logout"
    /\ session_state = ("authenticated" :> FALSE)
    /\ page = "login"

\* A step in which a login submission is accepted: the flag turns true.
Accepted(state, state2, ev2) ==
    /\ ~LoginFlag(script, state)
    /\ LoginFlag(script, state2)
    /\ ev2.kind = "submit"

\* C22: the run that accepts a login sets the flag and renders the login
\* form only; in pythondash.py it requests no rerun, no rerun ever happens
\* and the dashboard appears only in a run that a later page load or widget
\* interaction triggers; in newpy.py and model.py it requests a rerun, the
\* next run is that rerun and renders the protected content, and it comes
\* without any user action.
C22_RerunAfterLogin ==
    /\ [][/\ Accepted(session_state, session_state', event')
               => /\ page' = "login"
                  /\ rerun' = (script' # "pythondash.py")
          /\ script = "pythondash.py"
               => /\ ~rerun'
                  /\ event'.kind # "rerun"
                  /\ page' = "protected"
                       => /\ LoginFlag(script, session_state)
                          /\ event'.kind \in {"load", "submit"}
          /\ rerun
               => /\ script \in {"newpy.py", "model.py"}
                  /\ event'.kind = "rerun"
                  /\ page' = "protected"
                  /\ ~rerun']_vars
    /\ (rerun ~> (page = "protected"))

\* C22 witness: pythondash.py has accepted a login and still shows the
\* login form, with no rerun pending.
C22_Witness ==
    /\ script = "pythondash.py"
    /\ LoginFlag(script, session_state)
    /\ event.kind = "submit"
    /\ page = "login"
    /\ ~rerun

\* The status of a row: Active while last_date is missing, Left otherwise.
StatusOf(row) == IF row["last_date"] = "NaT" THEN "Active" ELSE "Left"

\* C23: filtered_df holds exactly the rows of df, in their order, whose
\* dept_name is among the selected departments and whose status is among
\* the selected statuses; with no status selected the status is not
\* restricted, which gives the rows that selecting both Active and Left
\* gives.
C23_FilteredRows ==
    (pc = "filtered" /\ error = "") =>
        LET Wanted(row) ==
                /\ row["dept_name"] \in Range(selected_depts)
                /\ \/ selected_status = <<>>
                   \/ StatusOf(row) \in Range(selected_status)
        IN  /\ filtered_df.cols = df.cols
            /\ filtered_df.rows = SelectSeq(df.rows, Wanted)
            /\ selected_status = <<>> =>
                  filtered_df = FilteredFrame(df, selected_depts,
                                              <<"Active", "Left">>)

\* C23 witness: with one department and only Left selected, the filters kept
\* one row and dropped a row of another department and an active one.
C23_Witness ==
    /\ pc = "filtered"
    /\ error = ""
    /\ Len(df.rows) = 3
    /\ Len(selected_depts) = 1
    /\ selected_status = <<"Left">>
    /\ Len(filtered_df.rows) = 1
    /\ \E i \in 1..3 : df.rows[i]["dept_name"] \notin Range(selected_depts)
    /\ \E i \in 1..3 :
          /\ df.rows[i]["dept_name"] \in Range(selected_depts)
          /\ df.rows[i]["last_date"] = "NaT"

====
